---- MODULE Spec2Model ----
(***************************************************************************)
(* Model of the image_dds surface encoder.                                 *)
(*                                                                         *)
(*   encode_surface_rgba8 / encode_mipmaps_rgba8 / encode_rgba8            *)
(*       (image_dds/src/encode.rs): the mip chain assembly, one step per   *)
(*       loop iteration of the code.                                       *)
(*   encode_bcn (image_dds/src/bcn/encode.rs): the length validation in    *)
(*       front of the block encoders.                                      *)
(*   Bc2::compress_surface / encode_bc2_block / sharp_alpha_block          *)
(*       (image_dds/src/bcn/encode.rs): the BC2 blocks, one step per tile. *)
(*                                                                         *)
(* Pixel buffers are described by their length and by where their bytes    *)
(* come from: a buffer is a record                                         *)
(*     [kind, len, off, copied]                                            *)
(* kind = "src":  bytes 0..copied-1 are bytes off..off+copied-1 of the     *)
(*                caller's surface data, bytes copied..len-1 are zero;     *)
(* kind = "down": the len bytes were produced by downsample_rgba8.         *)
(* Encoded output is a sequence of segments, one per codec invocation,     *)
(* each with the layer and level it was written for and its byte size.     *)
(***************************************************************************)
EXTENDS Integers, Sequences, FiniteSets, TLC

(* ----------------------------- bounds ---------------------------------- *)

\* Largest surface width/height, in 4-pixel blocks.
MaxBlocks == 3
\* Largest surface depth.
MaxDepth == 2
\* Largest number of array layers.
MaxLayers == 2
\* Largest mip level count the source surface declares.
MaxSurfaceMipmaps == 3
\* Largest count given to Mipmaps::GeneratedExact.
MaxExact == 3
\* Largest width/height, in 4-pixel blocks, handed to Bc2::compress_surface.
MaxBc2Blocks == 2
\* Largest width/height handed to encode_bcn directly.
MaxBcnDim == 255
\* usize::MAX of the modelled platform (scaled down so that the checked
\* multiplications of mip_size can overflow on dimensions TLC can enumerate).
UsizeMax == 65535

(* ------------------------- program constants --------------------------- *)

BLOCK_WIDTH == 4
BLOCK_HEIGHT == 4
CHANNELS == 4
ELEMENTS_PER_BLOCK == 64
\* Length of the spare buffer of the tests: more bytes than the surface needs.
SpareLen == 256

(* ----------------------------- helpers --------------------------------- *)

Max(a, b) == IF a >= b THEN a ELSE b
Min(a, b) == IF a <= b THEN a ELSE b

SetMax(S) == CHOOSE x \in S : \A y \in S : y <= x

RECURSIVE Pow2(_)
Pow2(n) == IF n = 0 THEN 1 ELSE 2 * Pow2(n - 1)

\* Option<usize>: a number, or None.
None == -1

\* usize::checked_mul on Option operands.
checked_mul(a, b) ==
    IF a = None \/ b = None THEN None
    ELSE IF a * b > UsizeMax THEN None
    ELSE a * b

(* ------------------------- format descriptor --------------------------- *)

BcnFormats == {"BC1Unorm", "BC7Srgb"}
ImageFormat == BcnFormats \cup {"R8G8B8A8Unorm"}

\* ImageFormat::block_dimensions: (width, height, depth) of one block.
block_dimensions(format) ==
    IF format \in BcnFormats THEN <<BLOCK_WIDTH, BLOCK_HEIGHT, 1>> ELSE <<1, 1, 1>>

\* Bytes of one encoded block.
block_size_in_bytes(format) ==
    CASE format = "BC1Unorm" -> 8
      [] format = "BC7Srgb" -> 16
      [] OTHER -> 4

(* --------------------------- size arithmetic --------------------------- *)

div_round_up(x, d) == (x + d - 1) \div d

round_up(x, n) == div_round_up(x, n) * n

\* Virtual dimension of mip level `mipmap`.
mip_dimension(x, mipmap) == Max(x \div Pow2(mipmap), 1)

RECURSIVE BitLength(_)
BitLength(n) == IF n = 0 THEN 0 ELSE 1 + BitLength(n \div 2)

\* Number of mip levels down to 1x1x1 for the largest dimension.
max_mipmap_count(max_dimension) == BitLength(max_dimension)

\* Bytes of one mip level: blocks along each axis times the block size,
\* None when a product overflows usize.
mip_size(width, height, depth, block_width, block_height, block_depth, block_size) ==
    checked_mul(
        checked_mul(
            checked_mul(div_round_up(width, block_width),
                        div_round_up(height, block_height)),
            div_round_up(depth, block_depth)),
        block_size)

(* ------------------------------ results -------------------------------- *)

Pending == [kind |-> "Pending"]
Ok(size) == [kind |-> "Ok", size |-> size]
Err(name, detail) == [kind |-> "Err", err |-> name, detail |-> detail]
\* A Rust panic: the call aborts and returns nothing.
Panic(at) == [kind |-> "Panic", at |-> at]

(* ------------------------ the caller's surface ------------------------- *)

\* Bytes of mip level m of one layer of the RGBA8 source surface.
LevelBytes(s, m) ==
    mip_dimension(s.width, m) * mip_dimension(s.height, m)
        * mip_dimension(s.depth, m) * CHANNELS

RECURSIVE LevelOffset(_, _)
\* Bytes of the levels before level m within one layer.
LevelOffset(s, m) == IF m = 0 THEN 0 ELSE LevelOffset(s, m - 1) + LevelBytes(s, m - 1)

NoData == [off |-> 0, len |-> None]

\* SurfaceRgba8::get: the bytes of (layer, mipmap), layers outer and mip
\* levels inner; None when the surface does not hold them.
get(s, l, m) ==
    IF l >= s.layers \/ m >= s.mipmaps THEN NoData
    ELSE LET off == l * LevelOffset(s, s.mipmaps) + LevelOffset(s, m)
             len == LevelBytes(s, m)
         IN  IF off + len > s.dataLen THEN NoData ELSE [off |-> off, len |-> len]

\* SurfaceRgba8::validate_encode: the checks made before anything is encoded.
validate_encode(s, format) ==
    LET bd == block_dimensions(format)
    IN  IF s.width = 0 \/ s.height = 0 \/ s.depth = 0
        THEN Err("ZeroSizedSurface", <<s.width, s.height, s.depth>>)
        ELSE IF s.width % bd[1] # 0 \/ s.height % bd[2] # 0
        THEN Err("NonIntegralDimensionsInBlocks",
                 <<s.width, s.height, s.depth, bd[1], bd[2]>>)
        ELSE Ok(0)

(* ------------------------- per level encoders -------------------------- *)

\* Bytes of RGBA8 input one level of the given size needs, padded to blocks.
RequiredInput(width, height, depth, format) ==
    LET bd == block_dimensions(format)
    IN  checked_mul(
            checked_mul(
                checked_mul(round_up(width, bd[1]), round_up(height, bd[2])),
                round_up(depth, bd[3])),
            CHANNELS)

\* The encoders behind encode_rgba8 (bcn_from_rgba8, encode_rgba8_from_rgba8):
\* validate the input length, then produce one block per block of the level.
level_from_rgba8(width, height, depth, dataLen, format) ==
    LET bd == block_dimensions(format)
        required == RequiredInput(width, height, depth, format)
    IN  IF required = None
        THEN Err("PixelCountWouldOverflow", <<width, height, depth>>)
        ELSE IF dataLen < required
        THEN Err("NotEnoughData", <<required, dataLen>>)
        ELSE Ok(mip_size(width, height, depth, bd[1], bd[2], bd[3],
                         block_size_in_bytes(format)))

\* encode_rgba8: dispatch on the format.
encode_rgba8(width, height, depth, dataLen, format) ==
    CASE format \in BcnFormats -> level_from_rgba8(width, height, depth, dataLen, format)
      [] format = "R8G8B8A8Unorm" -> level_from_rgba8(width, height, depth, dataLen, format)

(* ----------------------------- downsampling ---------------------------- *)

\* Coordinates of the previous level sampled along one axis: the 2 samples
\* under each of the `n` target coordinates that lie inside `prev`.
SampledAxis(n, prev) ==
    {c \in {2 * t + k : t \in 0 .. n - 1, k \in 0 .. 1} : c < prev}

\* downsample_rgba8: the new buffer's length and the largest byte index read
\* from the previous level's buffer (None when nothing is read).
downsample_rgba8(new_width, new_height, new_depth, width, height, depth) ==
    LET xs == SampledAxis(new_width, width)
        ys == SampledAxis(new_height, height)
        zs == SampledAxis(new_depth, depth)
    IN  [len |-> new_width * new_height * new_depth * CHANNELS,
         maxRead |->
            IF xs = {} \/ ys = {} \/ zs = {} THEN None
            ELSE (SetMax(zs) * width * height + SetMax(ys) * width + SetMax(xs))
                    * CHANNELS + (CHANNELS - 1)]

(* ------------------------------- state --------------------------------- *)

VARIABLES
    op,             \* the entry point called: "surface", "bcn" or "bc2"
    surface,        \* SurfaceRgba8 argument: width, height, depth, layers, mipmaps, dataLen
    format,         \* ImageFormat argument
    mipmaps,        \* Mipmaps argument: [kind, count]
    pc,             \* position inside encode_surface_rgba8 / encode_bcn
    num_mipmaps,    \* local of encode_surface_rgba8
    use_surface,    \* local of encode_surface_rgba8
    layer,          \* loop variable of encode_surface_rgba8
    mipmap,         \* loop variable of encode_mipmaps_rgba8
    previous,       \* <<previous_width, previous_height, previous_depth>>
    mip_image,      \* pixel buffer of the level being built
    encoded_data,   \* surface_data: the segments appended so far
    level_source,   \* how the current level's pixels were obtained
    result,         \* what the call returned (or Pending)
    bcn_args,       \* encode_bcn arguments: width, height, dataLen
    encoder_calls,  \* number of F::compress_surface invocations by encode_bcn
    pixels,         \* contents of rgba8_data for Bc2: the alpha pattern [a0, stride]
    bc2             \* locals of Bc2::compress_surface: x, y, block_index, data, reads

vars == <<op, surface, format, mipmaps, pc, num_mipmaps, use_surface, layer, mipmap,
          previous, mip_image, encoded_data, level_source, result, bcn_args,
          encoder_calls, pixels, bc2>>

surface_locals == <<num_mipmaps, use_surface, layer, mipmap, previous, mip_image,
                    encoded_data, level_source>>
arguments == <<op, surface, format, mipmaps, bcn_args, pixels>>

(* ------------------------------- inputs -------------------------------- *)

Widths == {0, 3} \cup {BLOCK_WIDTH * k : k \in 1 .. MaxBlocks}
Heights == {0, 5} \cup {BLOCK_HEIGHT * k : k \in 1 .. MaxBlocks}
Depths == 0 .. MaxDepth

MipmapsArgs ==
    {[kind |-> k, count |-> 0] : k \in {"Disabled", "FromSurface", "GeneratedAutomatic"}}
        \cup {[kind |-> "GeneratedExact", count |-> n] : n \in 0 .. MaxExact}

\* Buffer lengths a caller may pass with the given dimensions: one byte short
\* of the base level, exactly the base level, every level of every layer, and
\* a spare buffer whose length does not depend on the dimensions.
DataLens(w, h, d, l, m) ==
    LET s == [width |-> w, height |-> h, depth |-> d, layers |-> l, mipmaps |-> m]
        base == w * h * d * CHANNELS
    IN  {Max(base - 1, 0), base, l * LevelOffset(s, m), SpareLen}

Surfaces ==
    {[width |-> w, height |-> h, depth |-> d, layers |-> l, mipmaps |-> m, dataLen |-> n] :
        w \in Widths, h \in Heights, d \in Depths, l \in 1 .. MaxLayers,
        m \in 1 .. MaxSurfaceMipmaps, n \in 0 .. 0}

NoSurface == [width |-> 0, height |-> 0, depth |-> 0, layers |-> 0, mipmaps |-> 0,
              dataLen |-> 0]
NoBcnArgs == [width |-> 0, height |-> 0, dataLen |-> 0]
NoBuffer == [kind |-> "none", len |-> 0, off |-> 0, copied |-> 0]
NoSource == [kind |-> "none"]
NoPixels == [a0 |-> 0, stride |-> 0]
NoBc2 == [x |-> 0, y |-> 0, block_index |-> 0, data |-> <<>>, tile |-> <<0, 0>>,
          reads |-> <<>>, total_reads |-> 0]

BcnDims == {0, 1, BLOCK_WIDTH, BLOCK_WIDTH + 1, 2 * BLOCK_WIDTH, MaxBcnDim}

\* Buffer lengths for encode_bcn: around the expected size, and fixed ones.
BcnDataLens(w, h) ==
    LET e == div_round_up(w, BLOCK_WIDTH) * div_round_up(h, BLOCK_HEIGHT)
                * ELEMENTS_PER_BLOCK
    IN  {0, ELEMENTS_PER_BLOCK} \cup {n \in {e - 1, e, e + 1} : n >= 0 /\ n <= UsizeMax}

InitLocals ==
    /\ num_mipmaps = 0
    /\ use_surface = FALSE
    /\ layer = 0
    /\ mipmap = 0
    /\ previous = <<0, 0, 0>>
    /\ mip_image = NoBuffer
    /\ encoded_data = <<>>
    /\ level_source = NoSource
    /\ result = Pending
    /\ encoder_calls = 0

InitSurface ==
    /\ op = "surface"
    /\ \E s \in Surfaces :
        \E n \in DataLens(s.width, s.height, s.depth, s.layers, s.mipmaps) :
            surface = [s EXCEPT !.dataLen = n]
    /\ format \in ImageFormat
    /\ mipmaps \in MipmapsArgs
    /\ bcn_args = NoBcnArgs
    /\ pixels = NoPixels
    /\ bc2 = NoBc2
    /\ pc = "validate"

InitBcn ==
    /\ op = "bcn"
    /\ \E w \in BcnDims, h \in BcnDims :
        \E n \in BcnDataLens(w, h) :
            bcn_args = [width |-> w, height |-> h, dataLen |-> n]
    /\ surface = NoSurface
    /\ format = "BC1Unorm"
    /\ mipmaps = [kind |-> "Disabled", count |-> 0]
    /\ pixels = NoPixels
    /\ bc2 = NoBc2
    /\ pc = "encode_bcn"

\* Widths and heights handed to encode_bcn::<Bc2, u8>: empty, smaller than a
\* block, not a multiple of a block, and whole blocks.
Bc2Dims == {0, 1, BLOCK_WIDTH + 1} \cup {BLOCK_WIDTH * k : k \in 1 .. MaxBc2Blocks}

\* Alpha patterns of the pixel buffer: pixel number p has alpha
\* (a0 + p * stride) % 256.
AlphaPatterns == {[a0 |-> a, stride |-> t] : a \in {0, 16, 250}, t \in {1, 17}}

InitBc2 ==
    /\ op = "bc2"
    /\ \E w \in Bc2Dims, h \in Bc2Dims :
        \E n \in BcnDataLens(w, h) :
            bcn_args = [width |-> w, height |-> h, dataLen |-> n]
    /\ pixels \in AlphaPatterns
    /\ bc2 = NoBc2
    /\ surface = NoSurface
    /\ format = "BC2Unorm"
    /\ mipmaps = [kind |-> "Disabled", count |-> 0]
    /\ pc = "encode_bcn"

Init == InitLocals /\ (InitSurface \/ InitBcn \/ InitBc2)

(* ----------------------- encode_surface_rgba8 -------------------------- *)

\* Faulty variant: Disabled keeps the source surface's level count.
num_mipmaps_of_surface(m, s) ==
    CASE m.kind = "Disabled" -> s.mipmaps
      [] m.kind = "FromSurface" -> s.mipmaps
      [] m.kind = "GeneratedExact" -> m.count
      [] m.kind = "GeneratedAutomatic" ->
            max_mipmap_count(Max(Max(s.width, s.height), s.depth))

\* The match on the Mipmaps argument.
num_mipmaps_of(m, s) ==
    CASE m.kind = "Disabled" -> 1
      [] m.kind = "FromSurface" -> s.mipmaps
      [] m.kind = "GeneratedExact" -> m.count
      [] m.kind = "GeneratedAutomatic" ->
            max_mipmap_count(Max(Max(s.width, s.height), s.depth))

\* Faulty variant: the level's dimensions are not rounded up to whole blocks.
mip_dimension_unrounded(x, n, level) == mip_dimension(x, level)

\* The closure mip_dimension_rounded of encode_mipmaps_rgba8.
mip_dimension_rounded(x, n, level) == round_up(mip_dimension(x, level), n)

\* <<mip_width, mip_height, mip_depth>> of a level.
MipDims(s, f, level) ==
    LET bd == block_dimensions(f)
    IN  <<mip_dimension_rounded(s.width, bd[1], level),
          mip_dimension_rounded(s.height, bd[2], level),
          mip_dimension_rounded(s.depth, bd[3], level)>>

Segment(l, level, size, buffer) ==
    [layer |-> l, level |-> level, size |-> size, origin |-> buffer.off]

\* Faulty variant: the result of validate_encode is not propagated.
ValidateEncode_Unchecked ==
    /\ op = "surface" /\ pc = "validate"
    /\ num_mipmaps' = num_mipmaps_of(mipmaps, surface)
    /\ use_surface' = (mipmaps.kind = "FromSurface")
    /\ layer' = 0
    /\ encoded_data' = <<>>
    /\ pc' = "layer"
    /\ UNCHANGED <<mipmap, previous, mip_image, level_source, result>>
    /\ UNCHANGED <<arguments, bc2, encoder_calls>>

\* surface.validate_encode(format)?, then the locals set up before the loop.
ValidateEncode ==
    /\ op = "surface" /\ pc = "validate"
    /\ LET v == validate_encode(surface, format)
       IN  IF v.kind = "Err"
           THEN /\ result' = v
                /\ pc' = "done"
                /\ UNCHANGED surface_locals
           ELSE /\ num_mipmaps' = num_mipmaps_of(mipmaps, surface)
                /\ use_surface' = (mipmaps.kind = "FromSurface")
                /\ layer' = 0
                /\ encoded_data' = <<>>
                /\ pc' = "layer"
                /\ UNCHANGED <<mipmap, previous, mip_image, level_source, result>>
    /\ UNCHANGED <<arguments, bc2, encoder_calls>>

\* One iteration of `for layer in 0..layers` up to the mip loop: the base
\* level of encode_mipmaps_rgba8.
EncodeBaseLevel ==
    /\ op = "surface" /\ pc = "layer" /\ layer < surface.layers
    /\ LET bd == block_dimensions(format)
           base == [kind |-> "src", len |-> surface.dataLen, off |-> 0,
                    copied |-> surface.dataLen]
           r == encode_rgba8(Max(surface.width, bd[1]), Max(surface.height, bd[2]),
                             Max(surface.depth, bd[3]), base.len, format)
       IN  IF r.kind = "Err"
           THEN /\ result' = r
                /\ pc' = "done"
                /\ UNCHANGED <<encoded_data, mip_image, previous, mipmap>>
           ELSE /\ encoded_data' = Append(encoded_data, Segment(layer, 0, r.size, base))
                /\ mip_image' = base
                /\ previous' = <<surface.width, surface.height, surface.depth>>
                /\ mipmap' = 1
                /\ pc' = "mip"
                /\ UNCHANGED result
    /\ UNCHANGED <<arguments, bc2, num_mipmaps, use_surface, layer, level_source, encoder_calls>>

\* Faulty variant: short level data is passed on without padding.
pad_from_surface_unpadded(data, mip_width, mip_height, mip_depth) ==
    [panic |-> FALSE, reads |-> 0, padded |-> FALSE,
     buffer |-> [kind |-> "src", len |-> data.len, off |-> data.off,
                 copied |-> data.len]]

\* The zero padding loop: padded_data[i] = data[i] for every pixel index i of
\* the physical level. An index past the end of data panics.
pad_from_surface(data, mip_width, mip_height, mip_depth) ==
    LET expected_size == mip_width * mip_height * mip_depth * CHANNELS
        reads == mip_width * mip_height * mip_depth
    IN  IF data.len < expected_size
        THEN IF reads > data.len
             THEN [panic |-> TRUE, reads |-> data.len + 1, padded |-> TRUE,
                   buffer |-> NoBuffer]
             ELSE [panic |-> FALSE, reads |-> reads, padded |-> TRUE,
                   buffer |-> [kind |-> "src", len |-> expected_size, off |-> data.off,
                               copied |-> reads]]
        ELSE [panic |-> FALSE, reads |-> 0, padded |-> FALSE,
              buffer |-> [kind |-> "src", len |-> data.len, off |-> data.off,
                          copied |-> data.len]]

\* Mip loop body, use_surface branch: the level's pixels come from the surface.
MipFromSurface ==
    /\ op = "surface" /\ pc = "mip" /\ mipmap < num_mipmaps /\ use_surface
    /\ LET dims == MipDims(surface, format, mipmap)
           data == get(surface, layer, mipmap)
           p == pad_from_surface(data, dims[1], dims[2], dims[3])
       IN  IF data.len = None
           THEN /\ result' = Panic("unwrap")
                /\ pc' = "done"
                /\ level_source' = [kind |-> "surface", level |-> mipmap,
                                    supplied |-> None, expected |-> 0, reads |-> 0,
                                    padded |-> FALSE]
                /\ UNCHANGED mip_image
           ELSE /\ level_source' = [kind |-> "surface", level |-> mipmap,
                                    supplied |-> data.len,
                                    expected |-> dims[1] * dims[2] * dims[3] * CHANNELS,
                                    reads |-> p.reads, padded |-> p.padded]
                /\ IF p.panic
                   THEN /\ result' = Panic("index")
                        /\ pc' = "done"
                        /\ UNCHANGED mip_image
                   ELSE /\ mip_image' = p.buffer
                        /\ pc' = "mip_encode"
                        /\ UNCHANGED result
    /\ UNCHANGED <<arguments, bc2, num_mipmaps, use_surface, layer, mipmap, previous,
                   encoded_data, encoder_calls>>

\* Mip loop body, generated branch: downsample the previous level.
MipDownsample ==
    /\ op = "surface" /\ pc = "mip" /\ mipmap < num_mipmaps /\ ~use_surface
    /\ LET dims == MipDims(surface, format, mipmap)
           ds == downsample_rgba8(dims[1], dims[2], dims[3],
                                  previous[1], previous[2], previous[3])
       IN  /\ level_source' = [kind |-> "downsample", level |-> mipmap, new |-> dims,
                               prev |-> previous, bufLen |-> mip_image.len,
                               maxRead |-> ds.maxRead]
           /\ IF ds.maxRead >= mip_image.len
              THEN /\ result' = Panic("index")
                   /\ pc' = "done"
                   /\ UNCHANGED mip_image
              ELSE /\ mip_image' = [kind |-> "down", len |-> ds.len,
                                    off |-> mip_image.off, copied |-> 0]
                   /\ pc' = "mip_encode"
                   /\ UNCHANGED result
    /\ UNCHANGED <<arguments, bc2, num_mipmaps, use_surface, layer, mipmap, previous,
                   encoded_data, encoder_calls>>

\* Faulty variant: the previous dimensions are never updated.
next_previous_stale(dims, prev) == prev

\* "Update the dimensions for the previous mipmap image data."
next_previous(dims, prev) == dims

\* Mip loop body, second half: encode the level and remember its dimensions.
EncodeMipLevel ==
    /\ op = "surface" /\ pc = "mip_encode"
    /\ LET dims == MipDims(surface, format, mipmap)
           r == encode_rgba8(dims[1], dims[2], dims[3], mip_image.len, format)
       IN  IF r.kind = "Err"
           THEN /\ result' = r
                /\ pc' = "done"
                /\ UNCHANGED <<encoded_data, previous, mipmap>>
           ELSE /\ encoded_data' = Append(encoded_data,
                                          Segment(layer, mipmap, r.size, mip_image))
                /\ previous' = next_previous(dims, previous)
                /\ mipmap' = mipmap + 1
                /\ pc' = "mip"
                /\ UNCHANGED result
    /\ UNCHANGED <<arguments, bc2, num_mipmaps, use_surface, layer, mip_image, level_source,
                   encoder_calls>>

\* `for mipmap in 1..num_mipmaps` is exhausted: encode_mipmaps_rgba8 returns
\* Ok(()) and the layer loop advances.
EndLayer ==
    /\ op = "surface" /\ pc = "mip" /\ mipmap >= num_mipmaps
    /\ layer' = layer + 1
    /\ pc' = "layer"
    /\ UNCHANGED <<arguments, bc2, num_mipmaps, use_surface, mipmap, previous, mip_image,
                   encoded_data, level_source, result, encoder_calls>>

\* The layer loop is exhausted: Ok(Surface { .. }).
ReturnSurface ==
    /\ op = "surface" /\ pc = "layer" /\ layer >= surface.layers
    /\ result' = [kind |-> "Ok", width |-> surface.width, height |-> surface.height,
                  depth |-> surface.depth, layers |-> surface.layers,
                  mipmaps |-> num_mipmaps, image_format |-> format,
                  data |-> encoded_data]
    /\ pc' = "done"
    /\ UNCHANGED <<arguments, bc2, surface_locals, encoder_calls>>

(* ------------------------------ encode_bcn ----------------------------- *)

\* Faulty variant: a buffer of exactly the expected length is rejected.
encode_bcn_off_by_one(width, height, dataLen) ==
    LET expected_size == mip_size(width, height, 1, BLOCK_WIDTH, BLOCK_HEIGHT, 1,
                                  ELEMENTS_PER_BLOCK)
    IN  IF expected_size = None
        THEN Err("PixelCountWouldOverflow", <<width, height, 1>>)
        ELSE IF dataLen <= expected_size
        THEN Err("NotEnoughData", <<expected_size, dataLen>>)
        ELSE Ok(expected_size)

\* encode_bcn up to the call of F::compress_surface.
encode_bcn(width, height, dataLen) ==
    LET expected_size == mip_size(width, height, 1, BLOCK_WIDTH, BLOCK_HEIGHT, 1,
                                  ELEMENTS_PER_BLOCK)
    IN  IF expected_size = None
        THEN Err("PixelCountWouldOverflow", <<width, height, 1>>)
        ELSE IF dataLen < expected_size
        THEN Err("NotEnoughData", <<expected_size, dataLen>>)
        ELSE Ok(expected_size)

\* A call of encode_bcn::<Bc1, u8>.
EncodeBcn ==
    /\ op = "bcn" /\ pc = "encode_bcn"
    /\ LET r == encode_bcn(bcn_args.width, bcn_args.height, bcn_args.dataLen)
       IN  /\ result' = r
           /\ encoder_calls' = IF r.kind = "Ok" THEN encoder_calls + 1 ELSE encoder_calls
    /\ pc' = "done"
    /\ UNCHANGED <<arguments, bc2, surface_locals>>

(* ------------------------ Bc2::compress_surface ------------------------ *)

RECURSIVE BitOr(_, _)
\* a | b on unsigned integers.
BitOr(a, b) ==
    IF a = 0 THEN b
    ELSE IF b = 0 THEN a
    ELSE 2 * BitOr(a \div 2, b \div 2) + Max(a % 2, b % 2)

\* u32::saturating_sub.
saturating_sub(a, b) == IF a < b THEN 0 ELSE a - b

\* rgba8_data[index]: the alpha byte of pixel number index / 4 follows the
\* alpha pattern; the colour bytes do not matter to the alpha block.
rgba8_data(px, index) ==
    IF index % CHANNELS = 3 THEN (px.a0 + (index \div CHANNELS) * px.stride) % 256 ELSE 0

\* Block `block_index` of bc3_data, the output of the external BC3 encoder,
\* as a u128 [hi, lo]: hi is the colour part, lo the interpolated alpha part.
bc3_block(block_index) == [hi |-> 1000 + block_index, lo |-> 2000 + block_index]

\* Blocks of bc3_data: one per 4x4 tile of the block padded surface.
bc3_block_count(width, height) ==
    div_round_up(width, BLOCK_WIDTH) * div_round_up(height, BLOCK_HEIGHT)

\* Faulty variant: the offset is added without clamping to the last pixel.
final_coord_unclamped(origin, offset, dim) == origin + offset

\* x_final / y_final of sharp_alpha_block.
final_coord(origin, offset, dim) == Min(origin + offset, saturating_sub(dim, 1))

\* input_index of sharp_alpha_block for loop indices i, j.
input_index(x, y, width, height, i, j) ==
    LET x_final == final_coord(x, i, width)
        y_final == final_coord(y, j, height)
    IN  (y_final * width + x_final) * CHANNELS + 3

\* Faulty variant: the nibbles are laid out column by column.
output_index_transposed(i, j) == i * BLOCK_WIDTH + j

\* output_index of sharp_alpha_block for loop indices i, j.
output_index(i, j) == j * BLOCK_HEIGHT + i

\* alpha |= value << (index * 4) on a u64 kept as 16 nibbles: the low four
\* bits of value go to nibble `index`, higher bits to the nibble above.
or_shifted(alpha, value, index) ==
    [k \in 0 .. 15 |->
        IF k = index THEN BitOr(alpha[k], value % 16)
        ELSE IF k = index + 1 THEN BitOr(alpha[k], (value \div 16) % 16)
        ELSE alpha[k]]

RECURSIVE sharp_alpha_loop(_, _, _, _, _, _, _)
\* The two nested loops of sharp_alpha_block from iteration n on: i is the
\* outer index, j the inner one.
sharp_alpha_loop(n, alpha, x, y, width, height, px) ==
    IF n = BLOCK_HEIGHT * BLOCK_WIDTH THEN alpha
    ELSE LET i == n \div BLOCK_WIDTH
             j == n % BLOCK_WIDTH
             value == rgba8_data(px, input_index(x, y, width, height, i, j)) \div 17
         IN  sharp_alpha_loop(n + 1, or_shifted(alpha, value, output_index(i, j)),
                              x, y, width, height, px)

\* sharp_alpha_block: the 64 alpha bits, the index read for every (i, j), and
\* whether an index is past the end of the data (a panic).
sharp_alpha_block(x, y, width, height, dataLen, px) ==
    LET reads == [ij \in (0 .. BLOCK_HEIGHT - 1) \X (0 .. BLOCK_WIDTH - 1) |->
                    input_index(x, y, width, height, ij[1], ij[2])]
    IN  [panic |-> \E ij \in DOMAIN reads : reads[ij] >= dataLen,
         reads |-> reads,
         alpha |-> sharp_alpha_loop(0, [k \in 0 .. 15 |-> 0], x, y, width, height, px)]

\* encode_bc2_block: the BC3 colour half over the sharp alpha half.
encode_bc2_block(x, y, width, height, dataLen, px, block_index) ==
    LET a == sharp_alpha_block(x, y, width, height, dataLen, px)
    IN  [panic |-> a.panic \/ block_index >= bc3_block_count(width, height),
         reads |-> a.reads,
         block |-> [hi |-> bc3_block(block_index).hi, lo |-> a.alpha]]

\* encode_bcn::<Bc2, u8> up to the block loop of Bc2::compress_surface.
Bc2EncodeBcn ==
    /\ op = "bc2" /\ pc = "encode_bcn"
    /\ LET r == encode_bcn(bcn_args.width, bcn_args.height, bcn_args.dataLen)
       IN  IF r.kind = "Err"
           THEN /\ result' = r
                /\ pc' = "done"
                /\ UNCHANGED <<encoder_calls, bc2>>
           ELSE /\ encoder_calls' = encoder_calls + 1
                /\ bc2' = NoBc2
                /\ pc' = "bc2_block"
                /\ UNCHANGED result
    /\ UNCHANGED <<arguments, surface_locals>>

\* One iteration of the loops over y and x of Bc2::compress_surface.
Bc2Block ==
    /\ op = "bc2" /\ pc = "bc2_block"
    /\ bc2.y < bcn_args.height /\ bcn_args.width > 0
    /\ LET b == encode_bc2_block(bc2.x, bc2.y, bcn_args.width, bcn_args.height,
                                 bcn_args.dataLen, pixels, bc2.block_index)
           last == bc2.x + BLOCK_WIDTH >= bcn_args.width
       IN  IF b.panic
           THEN /\ result' = Panic("index")
                /\ pc' = "done"
                /\ bc2' = [bc2 EXCEPT !.tile = <<bc2.x, bc2.y>>, !.reads = b.reads]
           ELSE /\ bc2' = [x |-> IF last THEN 0 ELSE bc2.x + BLOCK_WIDTH,
                           y |-> IF last THEN bc2.y + BLOCK_HEIGHT ELSE bc2.y,
                           block_index |-> bc2.block_index + 1,
                           data |-> Append(bc2.data, b.block),
                           tile |-> <<bc2.x, bc2.y>>,
                           reads |-> b.reads,
                           total_reads |-> bc2.total_reads + BLOCK_HEIGHT * BLOCK_WIDTH]
                /\ UNCHANGED <<result, pc>>
    /\ UNCHANGED <<arguments, surface_locals, encoder_calls>>

\* The loops are exhausted: Ok(data), 16 bytes per block.
Bc2Return ==
    /\ op = "bc2" /\ pc = "bc2_block"
    /\ (bc2.y >= bcn_args.height \/ bcn_args.width = 0)
    /\ result' = Ok(Len(bc2.data) * 16)
    /\ pc' = "done"
    /\ UNCHANGED <<arguments, surface_locals, encoder_calls, bc2>>

Next ==
    \/ ValidateEncode
    \/ EncodeBaseLevel
    \/ MipFromSurface
    \/ MipDownsample
    \/ EncodeMipLevel
    \/ EndLayer
    \/ ReturnSurface
    \/ EncodeBcn
    \/ Bc2EncodeBcn
    \/ Bc2Block
    \/ Bc2Return

Spec == Init /\ [][Next]_vars

(* ======================================================================= *)
(*                                 Claims                                  *)
(* ======================================================================= *)

(* Definitions the claims are stated with, written from the statements and *)
(* not from the operators of the model above.                              *)

\* ceil(a / b): the least q with q * b >= a.
CeilDiv(a, b) == CHOOSE q \in 0 .. a : q * b >= a /\ (q = 0 \/ (q - 1) * b < a)

RECURSIVE Shr(_, _)
\* x >> m, by m halvings.
Shr(x, m) == IF m = 0 THEN x ELSE Shr(x, m - 1) \div 2

\* Virtual dimension of level m: max(1, base_dim >> m).
VirtualDim(x, m) == IF Shr(x, m) < 1 THEN 1 ELSE Shr(x, m)

\* Physical dimension: the least multiple of the block dimension that is
\* at least the virtual dimension.
PhysicalDim(x, b, m) == b * CeilDiv(VirtualDim(x, m), b)

\* Blocks of level m of a surface of the given base dimensions.
LevelBlocks(s, f, m) ==
    LET bd == block_dimensions(f)
    IN  CeilDiv(VirtualDim(s.width, m), bd[1]) * CeilDiv(VirtualDim(s.height, m), bd[2])
            * CeilDiv(VirtualDim(s.depth, m), bd[3])

RECURSIVE TotalBytes(_)
\* data.len(): the segments' sizes added up.
TotalBytes(segs) == IF segs = <<>> THEN 0 ELSE Head(segs).size + TotalBytes(Tail(segs))

\* floor(log2(n)) for n >= 1.
FloorLog2(n) == CHOOSE k \in 0 .. n : Pow2(k) <= n /\ n < Pow2(k + 1)

Generated == mipmaps.kind \in {"GeneratedExact", "GeneratedAutomatic"}

(* ------------------------------- C1 ------------------------------------ *)

\* C1: with generated mipmaps, every level written for every layer occupies
\* exactly ceil(vw/bw)*ceil(vh/bh)*ceil(vd/bd) blocks of bytes_per_block bytes
\* with v = max(1, base_dim >> m), which is at least one block; and once the
\* base level has been encoded the call ends Ok, also when a level's virtual
\* width or height is not a multiple of the block dimension.
C1_GeneratedLevelSizes ==
    (op = "surface" /\ Generated) =>
        /\ \A i \in DOMAIN encoded_data :
            LET seg == encoded_data[i]
            IN  /\ seg.size = LevelBlocks(surface, format, seg.level)
                                * block_size_in_bytes(format)
                /\ seg.size >= block_size_in_bytes(format)
        /\ (pc = "done" /\ encoded_data # <<>>) => result.kind = "Ok"

\* The 12x12x1 example: 4 levels of a 16-byte 4x4 block format, 240 bytes.
C1_Witness ==
    /\ op = "surface" /\ pc = "done" /\ result.kind = "Ok"
    /\ mipmaps.kind = "GeneratedAutomatic" /\ format = "BC7Srgb"
    /\ surface.width = 12 /\ surface.height = 12 /\ surface.depth = 1
    /\ surface.layers = 1
    /\ Len(result.data) = 4
    /\ TotalBytes(result.data) = (9 + 4 + 1 + 1) * 16

(* ------------------------------- C2 ------------------------------------ *)

\* The layout a Surface of the given counts must have: layer outer, level
\* inner, one segment of the level's padded size per pair.
ExpectedLayout(s, f, layers, levels) ==
    [i \in 1 .. layers * levels |->
        LET l == (i - 1) \div levels
            m == (i - 1) % levels
        IN  [layer |-> l, level |-> m,
             size |-> LevelBlocks(s, f, m) * block_size_in_bytes(f)]]

\* C2: under every mip policy the returned data is the concatenation, layer
\* outer and level inner, of one segment per (layer, level) with layer below
\* the returned layers and level below the returned mipmaps, so data.len()
\* is the sum of those sizes.
C2_LayoutMatchesReportedCounts ==
    (op = "surface" /\ result.kind = "Ok") =>
        LET want == ExpectedLayout(surface, format, result.layers, result.mipmaps)
        IN  /\ Len(result.data) = Len(want)
            /\ \A i \in DOMAIN want :
                /\ result.data[i].layer = want[i].layer
                /\ result.data[i].level = want[i].level
                /\ result.data[i].size = want[i].size
            /\ TotalBytes(result.data) = TotalBytes(want)

(* ------------------------------- C3 ------------------------------------ *)

\* The level count each policy stands for.
PolicyLevels(m, s) ==
    CASE m.kind = "Disabled" -> 1
      [] m.kind = "FromSurface" -> s.mipmaps
      [] m.kind = "GeneratedExact" -> m.count
      [] m.kind = "GeneratedAutomatic" ->
            LET w == s.width
                h == s.height
                d == s.depth
                largest == CHOOSE x \in {w, h, d} : \A y \in {w, h, d} : y <= x
            IN  FloorLog2(largest) + 1

\* C3: the mipmaps field of the returned Surface is fixed by the mip policy
\* alone: 1 for Disabled whatever the source's own level count, the source's
\* level count for FromSurface, n for GeneratedExact(n), and
\* floor(log2(max(width, height, depth))) + 1 for GeneratedAutomatic.
C3_MipCountFollowsPolicy ==
    (op = "surface" /\ result.kind = "Ok") =>
        result.mipmaps = PolicyLevels(mipmaps, surface)

\* Disabled on a source surface that declares 3 levels returns 1 level.
C3_Witness ==
    /\ op = "surface" /\ result.kind = "Ok"
    /\ mipmaps.kind = "Disabled" /\ surface.mipmaps = 3
    /\ result.mipmaps = 1 /\ Len(result.data) = surface.layers

(* ------------------------------- C4 ------------------------------------ *)

\* The surface supplied data for the current level, shorter than the level's
\* physical size.
ShortLevelSupplied ==
    /\ op = "surface" /\ level_source.kind = "surface"
    /\ level_source.supplied # None
    /\ level_source.supplied < level_source.expected

\* C4: with the from-source policy, level data shorter than the physical size
\* is zero padded to exactly the physical size and encoded; the call does
\* not fail and reads no index outside the supplied level data.
C4_ShortLevelIsZeroPadded ==
    ShortLevelSupplied =>
        /\ result.kind # "Panic"
        /\ level_source.reads <= level_source.supplied
        /\ pc = "mip_encode" =>
            /\ mip_image.len = level_source.expected
            /\ mip_image.copied <= level_source.supplied

(* ------------------------------- C5 ------------------------------------ *)

\* C5: in generated mode every downsample step for level m >= 1 is given the
\* physical dimensions of level m-1 as previous dimensions, a previous buffer
\* of at least prev_width*prev_height*prev_depth RGBA pixels, and target
\* dimensions that exceed the previous ones on no axis; no read falls outside
\* the previous level's buffer.
C5_DownsampleWithinPrevious ==
    (op = "surface" /\ level_source.kind = "downsample") =>
        LET m == level_source.level
            bd == block_dimensions(format)
            prev == level_source.prev
            new == level_source.new
        IN  /\ m >= 1
            /\ prev = <<PhysicalDim(surface.width, bd[1], m - 1),
                        PhysicalDim(surface.height, bd[2], m - 1),
                        PhysicalDim(surface.depth, bd[3], m - 1)>>
            /\ level_source.bufLen >= prev[1] * prev[2] * prev[3] * CHANNELS
            /\ \A a \in 1 .. 3 : new[a] <= prev[a]
            /\ level_source.maxRead < prev[1] * prev[2] * prev[3] * CHANNELS
            /\ level_source.maxRead < level_source.bufLen
            /\ result.kind # "Panic"

\* A 12 wide surface at level 3: level 2 has the odd virtual width 3, and
\* the depth has already reached 1.
C5_Witness ==
    /\ op = "surface" /\ level_source.kind = "downsample" /\ pc = "mip_encode"
    /\ level_source.level = 3
    /\ surface.width = 12 /\ surface.height = 12 /\ surface.depth = 2
    /\ format \in BcnFormats
    /\ VirtualDim(surface.width, 2) = 3
    /\ level_source.prev = <<4, 4, 1>> /\ level_source.new = <<4, 4, 1>>

(* ------------------------------- C6 ------------------------------------ *)

NonIntegral ==
    LET bd == block_dimensions(format)
    IN  /\ surface.width # 0 /\ surface.height # 0 /\ surface.depth # 0
        /\ (surface.width % bd[1] # 0 \/ surface.height % bd[2] # 0)

\* C6: a surface (of no zero dimension) whose width or height is not a
\* multiple of the format's block dimensions is rejected with
\* NonIntegralDimensionsInBlocks carrying the dimensions and the block size,
\* also when the buffer is long enough, and no level is encoded.
C6_NonIntegralRejected ==
    (op = "surface" /\ NonIntegral /\ pc # "validate") =>
        LET bd == block_dimensions(format)
        IN  /\ pc = "done"
            /\ result = Err("NonIntegralDimensionsInBlocks",
                            <<surface.width, surface.height, surface.depth,
                              bd[1], bd[2]>>)
            /\ encoded_data = <<>>

\* 3x5x2 with a 4x4 block format and a 256 byte buffer.
C6_Witness ==
    /\ op = "surface" /\ pc = "done"
    /\ surface.width = 3 /\ surface.height = 5 /\ surface.depth = 2
    /\ format = "BC7Srgb" /\ surface.dataLen = 256
    /\ surface.dataLen >= 4 * 8 * 2 * CHANNELS
    /\ result.kind = "Err" /\ result.err = "NonIntegralDimensionsInBlocks"
    /\ result.detail = <<3, 5, 2, 4, 4>>

(* ------------------------------- C7 ------------------------------------ *)

ZeroSized == surface.width = 0 /\ surface.height = 0 /\ surface.depth = 0

\* C7: a zero sized surface (width = height = depth = 0) is answered with
\* ZeroSizedSurface carrying those dimensions for every format and mip
\* policy; the call never returns Ok and never encodes a level.
C7_ZeroSizedRejected ==
    (op = "surface" /\ ZeroSized) =>
        /\ result.kind # "Ok"
        /\ encoded_data = <<>>
        /\ pc # "validate" =>
            /\ pc = "done"
            /\ result = Err("ZeroSizedSurface", <<0, 0, 0>>)

C7_Witness ==
    /\ op = "surface" /\ ZeroSized /\ pc = "done"
    /\ mipmaps.kind = "GeneratedAutomatic" /\ format = "BC7Srgb"
    /\ result.kind = "Err" /\ result.err = "ZeroSizedSurface"

(* ------------------------------- C8 ------------------------------------ *)

\* C8: every error the call returns is raised before the first codec
\* invocation: a step that returns an error is taken with nothing encoded,
\* and once a level has been encoded no later step returns an error.
C8_ErrorsBeforeFirstEncode ==
    [][(op = "surface" /\ result'.kind = "Err") => encoded_data = <<>>]_vars

\* A two layer call that went on past its first encoded level through
\* padded, surface supplied levels and returned Ok.
C8_Witness ==
    /\ op = "surface" /\ pc = "done" /\ result.kind = "Ok"
    /\ surface.layers = 2 /\ Len(result.data) >= 4
    /\ use_surface /\ level_source.kind = "surface" /\ level_source.padded

(* ------------------------------- C9 ------------------------------------ *)

\* C9: encode_bcn computes ceil(width/4)*ceil(height/4)*ELEMENTS_PER_BLOCK
\* with checked arithmetic; it returns PixelCountWouldOverflow{width, height,
\* depth: 1} when that overflows, else NotEnoughData{expected, actual} when
\* the data is shorter, and calls the block encoder only when neither holds.
C9_EncodeBcnValidation ==
    op = "bcn" =>
        LET w == bcn_args.width
            h == bcn_args.height
            need == CeilDiv(w, 4) * CeilDiv(h, 4) * ELEMENTS_PER_BLOCK
        IN  IF pc # "done" THEN encoder_calls = 0 /\ result = Pending
            ELSE IF need > UsizeMax
            THEN /\ result = Err("PixelCountWouldOverflow", <<w, h, 1>>)
                 /\ encoder_calls = 0
            ELSE IF bcn_args.dataLen < need
            THEN /\ result = Err("NotEnoughData", <<need, bcn_args.dataLen>>)
                 /\ encoder_calls = 0
            ELSE result.kind = "Ok" /\ encoder_calls = 1

\* Overflow and a short buffer at once: the overflow is what is reported.
C9_Witness ==
    /\ op = "bcn" /\ pc = "done"
    /\ bcn_args.dataLen = 0
    /\ CeilDiv(bcn_args.width, 4) * CeilDiv(bcn_args.height, 4) * ELEMENTS_PER_BLOCK
            > UsizeMax
    /\ result.kind = "Err" /\ result.err = "PixelCountWouldOverflow"
    /\ encoder_calls = 0

(* ------------------------------- C11 ----------------------------------- *)

\* Alpha of pixel (px, py) of the Bc2 input, from the alpha pattern.
PixelAlpha(px, py) ==
    (pixels.a0 + (py * bcn_args.width + px) * pixels.stride) % 256

\* The pixel a tile offset stands for: the offset itself, or the nearest
\* pixel of the surface when the offset lies beyond its last column or row.
NearestPixel(c, dim) == IF c <= dim - 1 THEN c ELSE dim - 1

\* C11: the BC2 block with block index tile_row * ceil(width/4) + tile_col
\* has as its upper 64 bits the upper 64 bits of the BC3 block with the same
\* index, and as its lower 64 bits sixteen nibbles, the nibble at index
\* dy*4 + dx being floor(alpha/17) of the pixel at tile offset (dx, dy); no
\* two pixels share a nibble and every nibble is at most 15.
C11_Bc2BlockLayout ==
    op = "bc2" =>
        \A n \in DOMAIN bc2.data :
            LET k == n - 1
                cols == CeilDiv(bcn_args.width, 4)
                tile_row == k \div cols
                tile_col == k % cols
                b == bc2.data[n]
            IN  /\ b.hi = bc3_block(k).hi
                /\ n = Len(bc2.data) => bc2.tile = <<4 * tile_col, 4 * tile_row>>
                /\ \A dx \in 0 .. 3, dy \in 0 .. 3 :
                    /\ b.lo[dy * 4 + dx] =
                        PixelAlpha(NearestPixel(4 * tile_col + dx, bcn_args.width),
                                   NearestPixel(4 * tile_row + dy, bcn_args.height)) \div 17
                    /\ b.lo[dy * 4 + dx] <= 15

\* A 5x8 surface: four blocks, the second row of tiles starting at block 2,
\* with different alphas in neighbouring nibbles.
C11_Witness ==
    /\ op = "bc2" /\ pc = "done" /\ result.kind = "Ok"
    /\ bcn_args.width = 5 /\ bcn_args.height = 8 /\ pixels.stride = 17
    /\ Len(bc2.data) = 4
    /\ bc2.data[3].hi = bc3_block(2).hi
    /\ bc2.data[1].lo[0] # bc2.data[1].lo[1]
    /\ bc2.data[1].lo[1] # bc2.data[1].lo[4]

(* ------------------------------- C12 ----------------------------------- *)

\* C12: for every tile origin (x, y) visited and every tile offset (dx, dy)
\* the alpha byte read is that of pixel (min(x+dx, width-1),
\* min(y+dy, height-1)), at an index below the length of the pixel buffer,
\* also when width or height is no multiple of 4; nothing is read when
\* width or height is 0.
C12_AlphaReadsClamped ==
    op = "bc2" =>
        /\ result.kind # "Panic"
        /\ (bcn_args.width = 0 \/ bcn_args.height = 0) => bc2.total_reads = 0
        /\ bc2.total_reads > 0 =>
            \A dx \in 0 .. 3, dy \in 0 .. 3 :
                LET x_final == NearestPixel(bc2.tile[1] + dx, bcn_args.width)
                    y_final == NearestPixel(bc2.tile[2] + dy, bcn_args.height)
                IN  /\ bc2.reads[<<dx, dy>>] =
                            (y_final * bcn_args.width + x_final) * 4 + 3
                    /\ bc2.reads[<<dx, dy>>] < bcn_args.dataLen

\* The right-hand tile of a 5x1 surface: every offset reads pixel (4, 0).
C12_Witness ==
    /\ op = "bc2" /\ bc2.total_reads > 0
    /\ bcn_args.width = 5 /\ bcn_args.height = 1
    /\ bc2.tile = <<4, 0>>
    /\ bc2.reads[<<3, 3>>] = 19 /\ bc2.reads[<<0, 0>>] = 19

(* ------------------------------- C13 ----------------------------------- *)

\* Offset in the surface data of the first byte of a layer.
LayerStart(s, l) == l * LevelOffset(s, s.mipmaps)

\* The surface data holds every level of every layer.
AllLayersSupplied ==
    surface.dataLen >= surface.layers * LevelOffset(surface, surface.mipmaps)

\* C13: the mip chain written for layer l is derived from layer l's own
\* pixels: its base level is encoded from layer l's base level pixels, its
\* generated levels are downsampled from them, and its surface supplied
\* levels are that layer's levels; so a change to the pixels of layer k can
\* change the output only inside layer k's segment.
C13_LayerChainFromOwnPixels ==
    (op = "surface" /\ AllLayersSupplied) =>
        \A i \in DOMAIN encoded_data :
            LET seg == encoded_data[i]
            IN  IF use_surface /\ seg.level >= 1
                THEN seg.origin = LayerStart(surface, seg.layer)
                                    + LevelOffset(surface, seg.level)
                ELSE seg.origin = LayerStart(surface, seg.layer)

====
